---- MODULE Spec2Model ----
(***************************************************************************)
(* Model of assets/build.py: the asset build script of akron.             *)
(*                                                                         *)
(* Strings are sequences of one-character strings, paths are sequences of  *)
(* path components, the file system is a function from paths to contents.  *)
(* Every library call that can raise has a failing twin action; a raised   *)
(* exception is never caught by the script, so it ends the run.            *)
(***************************************************************************)
EXTENDS Integers, Sequences, FiniteSets, TLC

VARIABLES
    pc,         \* position of the script
    run,        \* number of the current invocation of the script
    dirs,       \* directories that exist
    fs,         \* files that exist: path -> content
    svg_path,   \* build_hicolor_set: argument
    output_dir, \* build_hicolor_set: argument
    k,          \* build_hicolor_set: index of the size being processed
    listing,    \* order in which the icons directory is listed in this run
    i,          \* build_icons_font: enumerate() index
    svg_file,   \* build_icons_font: loop variable (file name)
    name,       \* build_icons_font: loop variable (derived glyph name)
    font,       \* build_icons_font: the fontforge font under construction
    icons,      \* build_icons_font: list of (name, char)
    written,    \* paths written by the current run, in order
    failed,     \* the step that raised, "" while none did
    fs0,        \* the files as they were when the current run started
    listing0    \* the listing the previous run iterated over

vars == <<pc, run, dirs, fs, svg_path, output_dir, k, listing, i, svg_file,
          name, font, icons, written, failed, fs0, listing0>>

-----------------------------------------------------------------------------
(* Bounds *)

MaxFiles == 3       \* entries in the icons directory
MaxRuns == 2        \* invocations of the script
MaxStemLen == 3     \* characters before the extension, for the name derivation

-----------------------------------------------------------------------------
(* Characters and number formatting *)

LowerChars == <<"a","b","c","d","e","f","g","h","i","j","k","l","m",
                "n","o","p","q","r","s","t","u","v","w","x","y","z">>
UpperChars == <<"A","B","C","D","E","F","G","H","I","J","K","L","M",
                "N","O","P","Q","R","S","T","U","V","W","X","Y","Z">>
DecDigits == <<"0","1","2","3","4","5","6","7","8","9">>
HexDigits == <<"0","1","2","3","4","5","6","7","8","9","A","B","C","D","E","F">>

IsLower(c) == \E j \in 1..Len(LowerChars) : LowerChars[j] = c
IsUpper(c) == \E j \in 1..Len(UpperChars) : UpperChars[j] = c
IsCased(c) == IsLower(c) \/ IsUpper(c)
ToUpper(c) == IF IsLower(c)
              THEN UpperChars[CHOOSE j \in 1..Len(LowerChars) : LowerChars[j] = c]
              ELSE c
ToLower(c) == IF IsUpper(c)
              THEN LowerChars[CHOOSE j \in 1..Len(UpperChars) : UpperChars[j] = c]
              ELSE c

\* f"{size}"
RECURSIVE Dec(_)
Dec(n) == IF n < 10 THEN <<DecDigits[n + 1]>>
          ELSE Dec(n \div 10) \o <<DecDigits[(n % 10) + 1]>>

RECURSIVE HexStr(_)
HexStr(n) == IF n < 16 THEN <<HexDigits[n + 1]>>
             ELSE HexStr(n \div 16) \o <<HexDigits[(n % 16) + 1]>>

RECURSIVE ZeroPad(_, _)
ZeroPad(s, width) == IF Len(s) >= width THEN s ELSE ZeroPad(<<"0">> \o s, width)

\* (the code point masked to 12 bits and not padded)
Hex4Bad(n) == HexStr(n % 4096)

\* f"{char:04X}"
Hex4(n) == ZeroPad(HexStr(n), 4)

-----------------------------------------------------------------------------
(* pathlib and str *)

EndsWith(s, suffix) ==
    /\ Len(s) >= Len(suffix)
    /\ SubSeq(s, Len(s) - Len(suffix) + 1, Len(s)) = suffix

\* the position of the last "." of s, 0 when there is none (str.rfind, 1-based)
RFindDot(s) == IF \E j \in 1..Len(s) : s[j] = "."
               THEN CHOOSE j \in 1..Len(s) :
                        s[j] = "." /\ \A j2 \in (j + 1)..Len(s) : s[j2] # "."
               ELSE 0

\* PurePath.stem: the name without its last suffix; a leading or a trailing
\* dot starts no suffix
Stem(s) == LET d == RFindDot(s)
           IN  IF 1 < d /\ d < Len(s) THEN SubSeq(s, 1, d - 1) ELSE s

\* the pattern '*.svg' of Path.glob, matched against an entry's name
MatchesSvg(s) == EndsWith(s, <<".", "s", "v", "g">>)

\* str.split('-')
RECURSIVE Split(_)
Split(s) == IF \E j \in 1..Len(s) : s[j] = "-"
            THEN LET p == CHOOSE j \in 1..Len(s) :
                              s[j] = "-" /\ \A j2 \in 1..(j - 1) : s[j2] # "-"
                 IN  <<SubSeq(s, 1, p - 1)>> \o Split(SubSeq(s, p + 1, Len(s)))
            ELSE <<s>>

\* str.title(): a cased character is upper-cased when the character before it
\* is not cased, lower-cased when it is
RECURSIVE TitleFrom(_, _)
TitleFrom(s, prevCased) ==
    IF s = <<>> THEN <<>>
    ELSE LET c == Head(s)
         IN  <<IF prevCased THEN ToLower(c) ELSE ToUpper(c)>>
                 \o TitleFrom(Tail(s), IsCased(c))

Title(s) == TitleFrom(s, FALSE)

\* ''.join(...)
RECURSIVE Join(_)
Join(ss) == IF ss = <<>> THEN <<>> ELSE Head(ss) \o Join(Tail(ss))

\* (the stem title-cased as a whole, dashes kept)
GlyphNameNoSplit(file) == Title(Stem(file))

\* ''.join(x.title() for x in svg_file.stem.split('-'))
GlyphName(file) == LET segs == Split(Stem(file))
                   IN  Join([j \in 1..Len(segs) |-> Title(segs[j])])

-----------------------------------------------------------------------------
(* Paths of the script (relative to assets_dir) and file contents *)

assets_dir == <<>>
hicolor == <<"h","i","c","o","l","o","r">>
apps == <<"a","p","p","s">>
scalable == <<"s","c","a","l","a","b","l","e">>
akron_svg == <<"a","k","r","o","n",".","s","v","g">>
akron_png == <<"a","k","r","o","n",".","p","n","g">>
akron_rgba == <<"a","k","r","o","n",".","r","g","b","a">>
icons_dir == <<"i","c","o","n","s">>
icons_ttf == <<"i","c","o","n","s",".","t","t","f">>
icons_rs == <<"i","c","o","n","s",".","r","s">>

\* the arguments __main__ passes
main_svg_path == assets_dir \o <<akron_svg>>
main_output_dir == assets_dir \o <<hicolor>>
image_path == assets_dir \o <<hicolor, <<"6","4","x","6","4">>, apps, akron_png>>
rgba_path == assets_dir \o <<akron_rgba>>
icons_path == assets_dir \o <<icons_dir>>
font_path == assets_dir \o <<icons_ttf>>
rs_path == assets_dir \o <<icons_rs>>
font_name == <<"i","c","o","n","s">>

Svg(data) == [kind |-> "svg", data |-> data]
Png(src, w, h) == [kind |-> "png", src |-> src.data, w |-> w, h |-> h]
\* img.convert('RGBA').tobytes(): width * height * 4 bytes, no header
Rgba(img) == [kind |-> "rgba", src |-> img.src, len |-> img.w * img.h * 4]
Stale == [kind |-> "stale"]
Partial == [kind |-> "partial"]

\* the path and all the paths above it
Prefixes(path) == {SubSeq(path, 1, n) : n \in 0..Len(path)}

\* the file at `path` is created or replaced
WriteFile(path, content) ==
    /\ fs' = (path :> content) @@ fs
    /\ written' = Append(written, path)

\* a writing call that raises leaves its target alone or half-written
FailedWrite(path) ==
    /\ \/ fs' = fs
       \/ fs' = (path :> Partial) @@ fs
    /\ UNCHANGED written

\* (a handler that swallowed the exception would let the script go on)
RaiseCaught(step) ==
    /\ failed' = step
    /\ UNCHANGED pc

\* an exception nothing catches ends the script
Raise(step) ==
    /\ failed' = step
    /\ pc' = "aborted"

-----------------------------------------------------------------------------
(* build_hicolor_set *)

\* (the list without 64)
sizesNo64 == <<128, 150, 16, 192, 22, 24, 256, 310, 32, 36, 44, 48, 512, 72, 96>>
sizes == <<128, 150, 16, 192, 22, 24, 256, 310, 32, 36, 44, 48, 512, 64, 72, 96>>

\* name = svg_path.stem
hicolor_name == Stem(svg_path[Len(svg_path)])

\* (the directory named after the size alone)
size_dirPlain(size) == output_dir \o <<Dec(size), apps>>

\* size_dir = output_dir / f"{size}x{size}" / "apps"
size_dir(size) == output_dir \o <<Dec(size) \o <<"x">> \o Dec(size), apps>>
scalable_dir == output_dir \o <<scalable, apps>>

PngSuffix == <<".","p","n","g">>
SvgSuffix == <<".","s","v","g">>

icons_locals == <<listing, i, svg_file, name, font, icons>>
history == <<run, fs0, listing0>>

\* Path.mkdir(parents=True, exist_ok=True)
Mkdir(path) ==
    /\ \A d \in Prefixes(path) : d \notin DOMAIN fs
    /\ dirs' = dirs \cup Prefixes(path)

\* a mkdir that raises may have created some of the parents
FailedMkdir(path) ==
    \E n \in 0..(Len(path) - 1) : dirs' = dirs \cup Prefixes(SubSeq(path, 1, n))

HicolorMkdir ==
    /\ pc = "hicolor_mkdir"
    /\ Mkdir(size_dir(sizes[k]))
    /\ pc' = "hicolor_render"
    /\ UNCHANGED <<fs, written, failed, k, svg_path, output_dir, icons_locals, history>>

HicolorMkdirFail ==
    /\ pc = "hicolor_mkdir"
    /\ FailedMkdir(size_dir(sizes[k]))
    /\ Raise("mkdir")
    /\ UNCHANGED <<fs, written, k, svg_path, output_dir, icons_locals, history>>

\* ffmpeg.input(svg).filter('scale', size, size).output(png).overwrite_output().run()
HicolorRender ==
    /\ pc = "hicolor_render"
    /\ svg_path \in DOMAIN fs
    /\ fs[svg_path].kind = "svg"
    /\ WriteFile(size_dir(sizes[k]) \o <<hicolor_name \o PngSuffix>>,
                 Png(fs[svg_path], sizes[k], sizes[k]))
    /\ k' = k + 1
    /\ pc' = IF k = Len(sizes) THEN "scalable_mkdir" ELSE "hicolor_mkdir"
    /\ UNCHANGED <<dirs, failed, svg_path, output_dir, icons_locals, history>>

HicolorRenderFail ==
    /\ pc = "hicolor_render"
    /\ FailedWrite(size_dir(sizes[k]) \o <<hicolor_name \o PngSuffix>>)
    /\ Raise("render")
    /\ UNCHANGED <<dirs, k, svg_path, output_dir, icons_locals, history>>

ScalableMkdir ==
    /\ pc = "scalable_mkdir"
    /\ Mkdir(scalable_dir)
    /\ pc' = "scalable_copy"
    /\ UNCHANGED <<fs, written, failed, k, svg_path, output_dir, icons_locals, history>>

ScalableMkdirFail ==
    /\ pc = "scalable_mkdir"
    /\ FailedMkdir(scalable_dir)
    /\ Raise("mkdir")
    /\ UNCHANGED <<fs, written, k, svg_path, output_dir, icons_locals, history>>

\* shutil.copy2(svg_path, scalable_dir / f"{name}.svg"); the function returns
ScalableCopy ==
    /\ pc = "scalable_copy"
    /\ svg_path \in DOMAIN fs
    /\ WriteFile(scalable_dir \o <<hicolor_name \o SvgSuffix>>, fs[svg_path])
    /\ pc' = "rgba"
    /\ UNCHANGED <<dirs, failed, k, svg_path, output_dir, icons_locals, history>>

ScalableCopyFail ==
    /\ pc = "scalable_copy"
    /\ FailedWrite(scalable_dir \o <<hicolor_name \o SvgSuffix>>)
    /\ Raise("copy")
    /\ UNCHANGED <<dirs, k, svg_path, output_dir, icons_locals, history>>

-----------------------------------------------------------------------------
(* build_rgba *)

\* Image.open(image_path).convert('RGBA').tobytes(), then open(rgba_path, 'wb')
BuildRgba ==
    /\ pc = "rgba"
    /\ image_path \in DOMAIN fs
    /\ fs[image_path].kind = "png"
    /\ WriteFile(rgba_path, Rgba(fs[image_path]))
    /\ pc' = "icons_begin"
    /\ UNCHANGED <<dirs, failed, k, svg_path, output_dir, icons_locals, history>>

BuildRgbaFail ==
    /\ pc = "rgba"
    /\ FailedWrite(rgba_path)
    /\ Raise("rgba")
    /\ UNCHANGED <<dirs, k, svg_path, output_dir, icons_locals, history>>

-----------------------------------------------------------------------------
(* build_icons_font *)

PUA == 57344        \* 0xE000
Em == 1000
GlyphWidth == 1000

NoFont == [fontname |-> <<>>, familyname |-> <<>>, fullname |-> <<>>,
           em |-> 0, glyphs |-> <<>>]

\* (a font that is born with a glyph of its own)
NewFontNotdef(fname) == [fontname |-> fname, familyname |-> fname, fullname |-> fname,
                         em |-> Em, glyphs |-> (0 :> [outline |-> <<>>, width |-> 0])]

\* fontforge.font() with the three names and em set
NewFont(fname) == [fontname |-> fname, familyname |-> fname, fullname |-> fname,
                   em |-> Em, glyphs |-> <<>>]

\* the names of the entries of the icons directory
IconsEntries == {p[Len(p)] : p \in {q \in DOMAIN fs :
                     Len(q) = Len(icons_path) + 1
                     /\ SubSeq(q, 1, Len(icons_path)) = icons_path}}

\* the orders in which a directory with these entries can be listed
Listings(entries) ==
    {l \in [1..Cardinality(entries) -> entries] :
        \A a, b \in 1..Cardinality(entries) : a # b => l[a] # l[b]}

\* (every entry, matching or not)
GlobAll(l) == l

\* icons_path.glob('*.svg'): the matching entries, in listing order
Glob(l) == SelectSeq(l, MatchesSvg)

\* char = 0xE000 + i
Char(idx) == PUA + idx

\* (a name already in the list is not added again)
AppendUnique(list, entry) ==
    IF \E j \in 1..Len(list) : list[j][1] = entry[1] THEN list ELSE Append(list, entry)

\* icons.append((name, char))
AppendIcon(list, entry) == Append(list, entry)

\* f"    {name},\n"
VariantLine(icon) == <<"    ">> \o icon[1] \o <<",\n">>

\* f"            Icon::{name} => '\\u{{{char:04X}}}',\n"
ArmLine(icon) ==
    <<"            Icon::">> \o icon[1] \o <<" => '\\u{">> \o Hex4(icon[2]) \o <<"}',\n">>

\* the lines the f.write calls produce
RsLines(fname, list) ==
    << <<"pub const FONT: iced::Font = iced::Font::with_name(\"">> \o fname \o <<"\");\n">>,
       <<"pub enum Icon {\n">> >>
    \o [j \in 1..Len(list) |-> VariantLine(list[j])]
    \o << <<"}\n">>,
          <<"impl Icon {\n">>,
          <<"    pub fn as_char(&self) -> char {\n">>,
          <<"        match self {\n">> >>
    \o [j \in 1..Len(list) |-> ArmLine(list[j])]
    \o << <<"        }\n">>,
          <<"    }\n">>,
          <<"}\n">> >>

\* (mode "a": the old content stays)
OpenAppend(path) ==
    IF path \in DOMAIN fs /\ fs[path].kind = "rs" THEN fs[path].lines ELSE <<>>

\* open(rs_path, "w"): what the file holds before the first write
OpenTruncate(path) == <<>>

Rs(lines) == [kind |-> "rs", lines |-> lines]
Ttf(f) == [kind |-> "ttf", fontname |-> f.fontname, familyname |-> f.familyname,
           fullname |-> f.fullname, em |-> f.em, glyphs |-> f.glyphs]

\* lines 40-45 and the listing the generator of line 47 walks
IconsBegin ==
    /\ pc = "icons_begin"
    /\ font' = NewFont(font_name)
    /\ icons' = <<>>
    /\ i' = 0
    /\ listing' \in Listings(IconsEntries)
    /\ pc' = "icons_loop"
    /\ UNCHANGED <<dirs, fs, written, failed, k, svg_path, output_dir,
                   svg_file, name, history>>

\* one iteration of the loop, lines 47-53
IconsImport ==
    /\ pc = "icons_loop"
    /\ i < Len(Glob(listing))
    /\ svg_file' = Glob(listing)[i + 1]
    /\ name' = GlyphName(svg_file')
    /\ font' = [font EXCEPT !.glyphs =
                   (Char(i) :> [outline |-> svg_file', width |-> GlyphWidth]) @@ @]
    /\ icons' = AppendIcon(icons, <<name', Char(i)>>)
    /\ i' = i + 1
    /\ UNCHANGED <<pc, dirs, fs, written, failed, k, svg_path, output_dir,
                   listing, history>>

\* glyph.importOutlines raises: the glyph slot exists, without outlines
IconsImportFail ==
    /\ pc = "icons_loop"
    /\ i < Len(Glob(listing))
    /\ svg_file' = Glob(listing)[i + 1]
    /\ name' = GlyphName(svg_file')
    /\ font' = [font EXCEPT !.glyphs =
                   (Char(i) :> [outline |-> <<>>, width |-> 0]) @@ @]
    /\ Raise("import")
    /\ UNCHANGED <<dirs, fs, written, k, svg_path, output_dir, listing, i, icons,
                   history>>

\* (the source written without waiting for the loop to end)
IconsWriteEarly ==
    /\ pc = "icons_loop"
    /\ WriteFile(rs_path, Rs(OpenTruncate(rs_path) \o RsLines(font_name, icons)))
    /\ pc' = "icons_generate"
    /\ UNCHANGED <<dirs, failed, k, svg_path, output_dir, icons_locals, history>>

\* the loop is exhausted; lines 55-66
IconsWrite ==
    /\ pc = "icons_loop"
    /\ i = Len(Glob(listing))
    /\ WriteFile(rs_path, Rs(OpenTruncate(rs_path) \o RsLines(font_name, icons)))
    /\ pc' = "icons_generate"
    /\ UNCHANGED <<dirs, failed, k, svg_path, output_dir, icons_locals, history>>

IconsWriteFail ==
    /\ pc = "icons_loop"
    /\ i = Len(Glob(listing))
    /\ FailedWrite(rs_path)
    /\ Raise("write")
    /\ UNCHANGED <<dirs, k, svg_path, output_dir, icons_locals, history>>

\* font.generate(str(font_path)); font.close(); the script ends
IconsGenerate ==
    /\ pc = "icons_generate"
    /\ WriteFile(font_path, Ttf(font))
    /\ pc' = "done"
    /\ UNCHANGED <<dirs, failed, k, svg_path, output_dir, icons_locals, history>>

IconsGenerateFail ==
    /\ pc = "icons_generate"
    /\ FailedWrite(font_path)
    /\ Raise("generate")
    /\ UNCHANGED <<dirs, k, svg_path, output_dir, icons_locals, history>>

-----------------------------------------------------------------------------
(* __main__ *)

\* the script is run again on the files the previous run left
Rerun ==
    /\ pc = "done"
    /\ run < MaxRuns
    /\ run' = run + 1
    /\ fs0' = fs
    /\ listing0' = listing
    /\ pc' = "hicolor_mkdir"
    /\ k' = 1
    /\ listing' = <<>>
    /\ i' = 0
    /\ svg_file' = <<>>
    /\ name' = <<>>
    /\ font' = NoFont
    /\ icons' = <<>>
    /\ written' = <<>>
    /\ failed' = ""
    /\ UNCHANGED <<dirs, fs, svg_path, output_dir>>

\* names an icons directory may hold
arrow_left_svg == <<"a","r","r","o","w","-","l","e","f","t",".","s","v","g">>
arrow_right_svg == <<"a","r","r","o","w","-","r","i","g","h","t",".","s","v","g">>
DirNames == {arrow_left_svg, arrow_right_svg,
             <<"a","-","b",".","s","v","g">>,
             <<"A","-","B",".","s","v","g">>,
             <<"x",".","p","n","g">>}

SvgData == {"d1", "d2"}

\* what an earlier build (of other inputs) may have left behind
StaleFiles ==
    (image_path :> [kind |-> "png", src |-> "d0", w |-> 64, h |-> 64])
    @@ (rgba_path :> Stale)
    @@ (rs_path :> Rs(<< <<"// stale\n">> >>))
    @@ (font_path :> Stale)
    @@ (main_output_dir \o <<scalable, apps, akron_svg>> :> Svg("d0"))

LocalsInit ==
    /\ k = 1
    /\ listing = <<>>
    /\ i = 0
    /\ svg_file = <<>>
    /\ name = <<>>
    /\ font = NoFont
    /\ icons = <<>>
    /\ written = <<>>
    /\ failed = ""
    /\ run = 1
    /\ listing0 = <<>>

Init ==
    /\ pc = "hicolor_mkdir"
    /\ svg_path = main_svg_path
    /\ output_dir = main_output_dir
    /\ \E entries \in SUBSET DirNames, stale \in BOOLEAN :
          /\ Cardinality(entries) <= MaxFiles
          /\ fs = [p \in {icons_path \o <<e>> : e \in entries} |-> Svg(p[Len(p)])]
                  @@ (main_svg_path :> Svg("d1"))
                  @@ (IF stale THEN StaleFiles ELSE <<>>)
          /\ dirs = {assets_dir, icons_path}
                    \cup (IF stale
                          THEN UNION {Prefixes(SubSeq(p, 1, Len(p) - 1)) :
                                         p \in DOMAIN StaleFiles}
                          ELSE {})
    /\ fs0 = fs
    /\ LocalsInit

Next ==
    \/ HicolorMkdir
    \/ HicolorMkdirFail
    \/ HicolorRender
    \/ HicolorRenderFail
    \/ ScalableMkdir
    \/ ScalableMkdirFail
    \/ ScalableCopy
    \/ ScalableCopyFail
    \/ BuildRgba
    \/ BuildRgbaFail
    \/ IconsBegin
    \/ IconsImport
    \/ IconsImportFail
    \/ IconsWrite
    \/ IconsWriteFail
    \/ IconsGenerate
    \/ IconsGenerateFail
    \/ Rerun

Spec == Init /\ [][Next]_vars

-----------------------------------------------------------------------------
(* build_hicolor_set called on its own, on any X.svg *)

HicolorChars == {"a", "B", ".", "-"}
HicolorInputs ==
    {stem \o SvgSuffix :
        stem \in UNION {[1..n -> HicolorChars] : n \in 1..MaxStemLen}}
out_dir == <<"o","u","t">>

InitHicolor ==
    /\ pc = "hicolor_mkdir"
    /\ \E file \in HicolorInputs, root \in {main_output_dir, <<out_dir, hicolor>>},
          data \in SvgData, stale \in BOOLEAN :
          /\ svg_path = assets_dir \o <<file>>
          /\ output_dir = assets_dir \o root
          /\ fs = (svg_path :> Svg(data))
                  @@ (IF stale
                      THEN (output_dir \o <<scalable, apps, file>> :> Svg("d0"))
                      ELSE <<>>)
          /\ dirs = {assets_dir}
                    \cup (IF stale THEN Prefixes(output_dir \o <<scalable, apps>>) ELSE {})
    /\ fs0 = fs
    /\ LocalsInit

NextHicolor ==
    \/ HicolorMkdir
    \/ HicolorMkdirFail
    \/ HicolorRender
    \/ HicolorRenderFail
    \/ ScalableMkdir
    \/ ScalableMkdirFail
    \/ ScalableCopy
    \/ ScalableCopyFail

SpecHicolor == InitHicolor /\ [][NextHicolor]_vars

-----------------------------------------------------------------------------
(* the glyph name derivation of line 48 on its own, on any matching name *)

NameChars == {"a", "B", "2", "-", ".", "_"}
NameInputs ==
    {stem \o SvgSuffix :
        stem \in UNION {[1..n -> NameChars] : n \in 0..MaxStemLen}}
    \cup {arrow_left_svg, arrow_right_svg}

InitName ==
    /\ pc = "derive"
    /\ svg_file \in NameInputs
    /\ svg_path = <<>>
    /\ output_dir = <<>>
    /\ fs = <<>>
    /\ dirs = {}
    /\ fs0 = fs
    /\ k = 1
    /\ listing = <<>>
    /\ i = 0
    /\ name = <<>>
    /\ font = NoFont
    /\ icons = <<>>
    /\ written = <<>>
    /\ failed = ""
    /\ run = 1
    /\ listing0 = <<>>

DeriveName ==
    /\ pc = "derive"
    /\ name' = GlyphName(svg_file)
    /\ pc' = "derived"
    /\ UNCHANGED <<run, dirs, fs, svg_path, output_dir, k, listing, i, svg_file,
                   font, icons, written, failed, fs0, listing0>>

NextName == DeriveName

SpecName == InitName /\ [][NextName]_vars

-----------------------------------------------------------------------------
(* Vocabulary of the properties *)

\* the entries of the listing that match the vector-outline extension
Matched == SelectSeq(listing, MatchesSvg)

WrittenThisRun(path) == \E j \in 1..Len(written) : written[j] = path
TimesWritten(path) == Cardinality({j \in 1..Len(written) : written[j] = path})

\* the number of matching entries listed before position pos
MatchedBefore(pos) == Cardinality({m \in 1..(pos - 1) : MatchesSvg(listing[m])})

IsHexDigit(c) == \E j \in 1..Len(HexDigits) : HexDigits[j] = c
HexDigitVal(c) == (CHOOSE j \in 1..Len(HexDigits) : HexDigits[j] = c) - 1
RECURSIVE HexVal(_)
HexVal(h) == IF h = <<>> THEN 0
             ELSE 16 * HexVal(SubSeq(h, 1, Len(h) - 1)) + HexDigitVal(h[Len(h)])

-----------------------------------------------------------------------------
(* C1 *)

\* C1: while and after build_icons_font imports, the j-th listed entry holds
\* code point 0xE000 + (number of matching entries listed before it) as soon
\* as it is imported, if it matches; an entry that does not match, or is not
\* yet imported, holds no code point; the code points in use are exactly
\* 0xE000 .. 0xE000+i-1 with no gap, and no two list entries share one.
C1_SequentialCodePoints ==
    (pc \in {"icons_loop", "icons_generate", "done"}) =>
        /\ \A j \in 1..Len(listing) :
              IF MatchesSvg(listing[j]) /\ MatchedBefore(j) < i
              THEN /\ (PUA + MatchedBefore(j)) \in DOMAIN font.glyphs
                   /\ font.glyphs[PUA + MatchedBefore(j)].outline = listing[j]
              ELSE \A c \in DOMAIN font.glyphs : font.glyphs[c].outline # listing[j]
        /\ DOMAIN font.glyphs = {PUA + m : m \in 0..(i - 1)}
        /\ Len(icons) = i
        /\ \A a \in 1..Len(icons) : icons[a][2] = PUA + (a - 1)
        /\ \A a, b \in 1..Len(icons) : a # b => icons[a][2] # icons[b][2]

\* a build has imported two glyphs that an unmatched entry precedes or separates
C1_Witness ==
    /\ pc = "done"
    /\ Len(listing) = 3
    /\ ~MatchesSvg(listing[2])
    /\ MatchesSvg(listing[1])
    /\ MatchesSvg(listing[3])
    /\ i = 2

-----------------------------------------------------------------------------
(* C2 *)

\* the name with its extension stripped: the final ".svg" dropped; a file named
\* exactly ".svg" is a dot-file that has no extension and keeps its whole name
ExtensionStripped(file) ==
    IF file = SvgSuffix THEN file ELSE SubSeq(file, 1, Len(file) - Len(SvgSuffix))

\* first character upper-cased, the rest lower-cased
ClaimTitle(seg) == [j \in 1..Len(seg) |-> IF j = 1 THEN ToUpper(seg[j]) ELSE ToLower(seg[j])]

ClaimName(file) == LET segs == Split(ExtensionStripped(file))
                   IN  Join([j \in 1..Len(segs) |-> ClaimTitle(segs[j])])

\* C2 as claimed: the derived name is the concatenation of the dash-separated
\* segments of the name without its extension, each with its first character
\* upper-cased and the rest lower-cased.
C2_Original == (pc = "derived") => name = ClaimName(svg_file)

DashesBefore(s, pos) == Cardinality({m \in 1..(pos - 1) : s[m] = "-"})

\* C2 amended: the derived name is the name without its extension and with its
\* dashes removed, in which a letter is upper-cased when it starts a segment or
\* follows a character that
\* is not a letter (a dash, a digit, a dot, an underscore), lower-cased when it
\* follows a letter, and any other character is kept; arrow-left.svg yields
\* ArrowLeft.
C2_Amended ==
    (pc = "derived") =>
        LET s == ExtensionStripped(svg_file)
        IN  /\ Len(name) = Len(s) - DashesBefore(s, Len(s) + 1)
            /\ \A pos \in 1..Len(s) :
                  s[pos] # "-" =>
                      name[pos - DashesBefore(s, pos)] =
                          IF ~IsCased(s[pos]) THEN s[pos]
                          ELSE IF pos > 1 /\ IsCased(s[pos - 1]) THEN ToLower(s[pos])
                          ELSE ToUpper(s[pos])
            /\ svg_file = arrow_left_svg
                  => name = <<"A","r","r","o","w","L","e","f","t">>

\* a name has been derived from a stem in which a letter follows a digit
C2_Witness ==
    /\ pc = "derived"
    /\ \E pos \in 1..(Len(svg_file) - 1) :
          svg_file[pos] = "2" /\ IsCased(svg_file[pos + 1])

-----------------------------------------------------------------------------
(* C3 *)

\* the text of arm line `line` between the name `nm` and the closing brace
ArmHex(line, nm) == SubSeq(line, Len(nm) + 3, Len(line) - 1)

\* `line` is the accessor arm of variant `nm` for code point `cp`, the code
\* point written as exactly four hexadecimal digits
IsArm(line, nm, cp) ==
    /\ Len(line) = Len(nm) + 7
    /\ line[1] = "            Icon::"
    /\ SubSeq(line, 2, Len(nm) + 1) = nm
    /\ line[Len(nm) + 2] = " => '\\u{"
    /\ \A j \in 1..4 : IsHexDigit(ArmHex(line, nm)[j])
    /\ HexVal(ArmHex(line, nm)) = cp
    /\ line[Len(line)] = "}',\n"

IsVariant(line, nm) == line = <<"    ">> \o nm \o <<",\n">>

\* C3: once build_icons_font has written the generated source in a run, the
\* file is the constant line, the enum with exactly one variant per matched
\* file in listing order, and the accessor with exactly one arm per variant in
\* the same order, the j-th arm giving 0xE000+j-1 as four hex digits; for the
\* listing arrow-left.svg, arrow-right.svg these are ArrowLeft -> E000 and
\* ArrowRight -> E001.
C3_GeneratedSource ==
    WrittenThisRun(rs_path) =>
        LET lines == fs[rs_path].lines
            n == Len(Matched)
        IN  /\ fs[rs_path].kind = "rs"
            /\ Len(lines) = 2 * n + 9
            /\ lines[1] = <<"pub const FONT: iced::Font = iced::Font::with_name(\"",
                            "i", "c", "o", "n", "s", "\");\n">>
            /\ lines[2] = <<"pub enum Icon {\n">>
            /\ \A j \in 1..n : IsVariant(lines[2 + j], GlyphName(Matched[j]))
            /\ lines[n + 3] = <<"}\n">>
            /\ lines[n + 4] = <<"impl Icon {\n">>
            /\ lines[n + 5] = <<"    pub fn as_char(&self) -> char {\n">>
            /\ lines[n + 6] = <<"        match self {\n">>
            /\ \A j \in 1..n :
                  IsArm(lines[n + 6 + j], GlyphName(Matched[j]), PUA + j - 1)
            /\ lines[2 * n + 7] = <<"        }\n">>
            /\ lines[2 * n + 8] = <<"    }\n">>
            /\ lines[2 * n + 9] = <<"}\n">>
            /\ Matched = <<arrow_left_svg, arrow_right_svg>> =>
                  /\ lines[3] = <<"    ", "A","r","r","o","w","L","e","f","t", ",\n">>
                  /\ lines[4] = <<"    ", "A","r","r","o","w","R","i","g","h","t", ",\n">>
                  /\ lines[9] = <<"            Icon::", "A","r","r","o","w","L","e","f","t",
                                  " => '\\u{", "E","0","0","0", "}',\n">>
                  /\ lines[10] = <<"            Icon::", "A","r","r","o","w","R","i","g","h","t",
                                   " => '\\u{", "E","0","0","1", "}',\n">>

\* a build of the directory arrow-left.svg, arrow-right.svg has completed
C3_Witness ==
    /\ pc = "done"
    /\ Matched = <<arrow_left_svg, arrow_right_svg>>

-----------------------------------------------------------------------------
(* C6 *)

\* C6: when no entry of the listing matches, the loop of build_icons_font
\* imports nothing and the write of the generated source is the step that
\* follows; the source it writes has the nine fixed lines only (no variant, no
\* arm), and the font it generates has no glyph.
C6_EmptyDirectory ==
    (pc \in {"icons_loop", "icons_generate", "done"} /\ Matched = <<>>) =>
        /\ pc = "icons_loop" => ENABLED IconsWrite /\ ~ENABLED IconsImportFail
        /\ WrittenThisRun(rs_path) =>
              fs[rs_path] =
                  [kind |-> "rs",
                   lines |-> << <<"pub const FONT: iced::Font = iced::Font::with_name(\"",
                                  "i", "c", "o", "n", "s", "\");\n">>,
                                <<"pub enum Icon {\n">>,
                                <<"}\n">>,
                                <<"impl Icon {\n">>,
                                <<"    pub fn as_char(&self) -> char {\n">>,
                                <<"        match self {\n">>,
                                <<"        }\n">>,
                                <<"    }\n">>,
                                <<"}\n">> >>]
        /\ WrittenThisRun(font_path) =>
              /\ fs[font_path].kind = "ttf"
              /\ DOMAIN fs[font_path].glyphs = {}

\* a build of a directory that holds an entry, but none that matches, has
\* completed
C6_Witness ==
    /\ pc = "done"
    /\ listing # <<>>
    /\ Matched = <<>>

-----------------------------------------------------------------------------
(* C8 *)

\* two matched files of the listing whose derived names are equal
Collide(a, b) ==
    /\ a < b
    /\ GlyphName(Matched[a]) = GlyphName(Matched[b])

-----------------------------------------------------------------------------
(* C4 *)

ClaimSizes == {16, 22, 24, 32, 36, 44, 48, 64, 72, 96, 128, 150, 192, 256, 310, 512}

\* X of the input X.svg
InputBase == SubSeq(svg_path[Len(svg_path)], 1, Len(svg_path[Len(svg_path)]) - 4)

\* <output_root>/<S>x<S>/apps/X.png
ClaimPng(size) ==
    output_dir \o <<Dec(size) \o <<"x">> \o Dec(size), apps, InputBase \o PngSuffix>>

\* <output_root>/scalable/apps/X.svg
ClaimScalable == output_dir \o <<scalable, apps, InputBase \o SvgSuffix>>

\* C4: when build_hicolor_set has returned, every size S of the sixteen has
\* its directory, and <S>x<S>/apps/X.png was written exactly once in the call
\* and holds the input rendered at S x S; nothing else was written but
\* scalable/apps/X.svg, which holds the content of the input.
C4_HicolorSet ==
    (pc = "rgba") =>
        /\ \A size \in ClaimSizes :
              /\ SubSeq(ClaimPng(size), 1, Len(output_dir) + 2) \in dirs
              /\ TimesWritten(ClaimPng(size)) = 1
              /\ fs[ClaimPng(size)] =
                    [kind |-> "png", src |-> fs[svg_path].data, w |-> size, h |-> size]
        /\ \A j \in 1..Len(written) :
              \/ written[j] = ClaimScalable
              \/ \E size \in ClaimSizes : written[j] = ClaimPng(size)
        /\ TimesWritten(ClaimScalable) = 1
        /\ fs[ClaimScalable] = fs[svg_path]
        /\ fs[svg_path] = fs0[svg_path]

\* the call has returned, for an input whose base name holds a dot, over a
\* stale scalable copy
C4_Witness ==
    /\ pc = "rgba"
    /\ \E j \in 1..Len(InputBase) : InputBase[j] = "."
    /\ ClaimScalable \in DOMAIN fs0
    /\ fs0[ClaimScalable] # fs[ClaimScalable]

-----------------------------------------------------------------------------
(* C9 *)

IndexWritten(path) == CHOOSE j \in 1..Len(written) : written[j] = path

\* C9: the pixel extractor runs only after the rasterizer has returned, and
\* the font packager only after the pixel extractor: whenever the script is at
\* or past the pixel extractor, hicolor/64x64/apps/akron.png was written by the
\* rasterizer in this run (64 is one of its sizes) and holds akron.svg at
\* 64 x 64; the pixel buffer is written after all seventeen outputs of the
\* rasterizer, from that file, and the outputs of the font packager after it.
C9_StepOrder ==
    /\ \E j \in 1..Len(sizes) : sizes[j] = 64
    /\ (pc \in {"rgba", "icons_begin", "icons_loop", "icons_generate", "done"}) =>
          /\ WrittenThisRun(image_path)
          /\ IndexWritten(image_path) <= Len(sizes)
          /\ fs[image_path] =
                [kind |-> "png", src |-> fs[main_svg_path].data, w |-> 64, h |-> 64]
    /\ (pc \in {"icons_begin", "icons_loop", "icons_generate", "done"}) =>
          WrittenThisRun(rgba_path)
    /\ WrittenThisRun(rgba_path) =>
          /\ IndexWritten(rgba_path) = Len(sizes) + 2
          /\ fs[rgba_path] =
                [kind |-> "rgba", src |-> fs[main_svg_path].data, len |-> 64 * 64 * 4]
    /\ WrittenThisRun(rs_path) => IndexWritten(rs_path) = Len(sizes) + 3
    /\ WrittenThisRun(font_path) => IndexWritten(font_path) = Len(sizes) + 4
    /\ (pc \in {"hicolor_mkdir", "hicolor_render", "scalable_mkdir", "scalable_copy"}) =>
          /\ ~WrittenThisRun(rgba_path)
          /\ font = NoFont

\* the pixel extractor has run in a build that found a stale 64x64 file
C9_Witness ==
    /\ pc = "icons_begin"
    /\ image_path \in DOMAIN fs0
    /\ fs0[image_path] # fs[image_path]

-----------------------------------------------------------------------------
(* C10 *)

\* the file at `path` is as it was when the run started
Untouched(path) ==
    /\ ~WrittenThisRun(path)
    /\ path \in DOMAIN fs <=> path \in DOMAIN fs0
    /\ path \in DOMAIN fs => fs[path] = fs0[path]

\* C10: the generated source is written only when every matched file has been
\* imported, the font file only after the generated source; after a failed
\* import neither file has been touched by the run, and after a failed font
\* generation the generated source of the run is on disk, with its variants.
C10_WriteOrder ==
    /\ WrittenThisRun(rs_path) =>
          /\ i = Len(Matched)
          /\ \A j \in 1..Len(Matched) :
                \E c \in DOMAIN font.glyphs : font.glyphs[c].outline = Matched[j]
    /\ WrittenThisRun(font_path) =>
          /\ WrittenThisRun(rs_path)
          /\ IndexWritten(rs_path) < IndexWritten(font_path)
    /\ failed = "import" =>
          /\ Untouched(rs_path)
          /\ Untouched(font_path)
    /\ failed = "generate" =>
          /\ WrittenThisRun(rs_path)
          /\ ~WrittenThisRun(font_path)
          /\ fs[rs_path].kind = "rs"
          /\ Len(fs[rs_path].lines) = 2 * Len(Matched) + 9

\* an import has failed after another succeeded, in a run that found the
\* generated source and the font of an earlier run
C10_Witness ==
    /\ failed = "import"
    /\ i >= 1
    /\ run = 2
    /\ rs_path \in DOMAIN fs
    /\ font_path \in DOMAIN fs

-----------------------------------------------------------------------------
(* C5 *)

OutputPaths ==
    {main_output_dir \o <<Dec(sizes[j]) \o <<"x">> \o Dec(sizes[j]), apps, akron_png>> :
        j \in 1..Len(sizes)}
    \cup {main_output_dir \o <<scalable, apps, akron_svg>>,
          rgba_path, rs_path, font_path}

\* C5: when a second (or later) run completes after listing the icons
\* directory in the order of the run before it, the generated source is the
\* one that run left, the font maps the same code points to the same glyphs,
\* and every output was written again by the run.
C5_Rebuild ==
    (run >= 2 /\ pc = "done" /\ listing = listing0) =>
        /\ fs[rs_path] = fs0[rs_path]
        /\ fs[font_path].glyphs = fs0[font_path].glyphs
        /\ \A p \in OutputPaths : TimesWritten(p) = 1

\* a second run has completed, with the listing of three entries in the
\* order of the first
C5_Witness ==
    /\ run = 2
    /\ pc = "done"
    /\ listing = listing0
    /\ Len(Matched) >= 2

-----------------------------------------------------------------------------
(* C7 *)

\* C7: a step is taken only while no step of the run has failed; a step that
\* fails ends the script, renders and imports nothing, and leaves every file
\* written earlier in the run, and every directory, as it was.
C7_FailureAborts ==
    [][/\ failed = ""
       /\ pc # "aborted"
       /\ failed' # "" =>
             /\ pc' = "aborted"
             /\ k' = k
             /\ i' = i
             /\ icons' = icons
             /\ written' = written
             /\ dirs \subseteq dirs'
             /\ \A j \in 1..Len(written) :
                   /\ written[j] \in DOMAIN fs'
                   /\ fs'[written[j]] = fs[written[j]]]_vars

\* a rendering has failed after some sizes were rendered and before others
C7_Witness ==
    /\ pc = "aborted"
    /\ failed = "render"
    /\ Len(written) >= 2
    /\ k < Len(sizes)

====
